---- MODULE Spec2Model ----
(***************************************************************************)
(* PID steering controller with Twiddle tuning (carnd_pid_control).        *)
(*                                                                         *)
(* Numbers.  The program computes in double.  The model is fixed-point:    *)
(*   - coefficients, CTE, thresholds, steering, throttle, scores and the   *)
(*     command-line values are counted in thousandths (1.0 is One);        *)
(*   - speed is counted in half miles per hour (1.0 mph is 2);             *)
(*   - distance is counted in 1/156250 m (1 m is Meter), the unit in which *)
(*     kSpeedToDistanceCoeff * speed is a whole number for every speed;    *)
(*   - time is counted in frames (kSecondsPerFrame each).                  *)
(* The outcomes of a division by zero (NaN, -Inf) are values of their own. *)
(***************************************************************************)
EXTENDS Integers, Sequences, FiniteSets, TLC

\* ---------------------------------------------------------------- bounds

\* Number of Update calls a behaviour makes.
MaxFrames == 4

\* ------------------------------------------------------------ fixed point

One == 10 * 10 * 10
Meter == 2 * 5 * 5 * 5 * 5 * 5 * 5 * 5
MphUnit == 1 + 1

Abs(x) == IF x < 0 THEN -x ELSE x

\* A double that is a number, and the two special outcomes the controller
\* can produce.
Fin(v) == [cls |-> "fin", val |-> v]
NaN == [cls |-> "nan", val |-> 0]
NegInf == [cls |-> "-inf", val |-> 0]

\* ------------------------------------------- PidController.cpp constants

\* 5.0 m, in distance units.
kMinMeasurementDistance == 5 * Meter
\* 0.025 = 1 / kMaxCteSkipInverse.
kMaxCteSkipInverse == 40
\* 1e+6, in units of 1.0.
kOffTrackPenalty == 1000000
\* kMphToMps / kFrameRate = 1609.344 / 3600 / 25 m per mph
\*   = 1397 / 78125 m per mph = 1397 distance units per half mph.
kSpeedToDistanceCoeff == 1397

\* ---------------------------------------------------- main.cpp constants

kKp == 120
\* 1e-5 is below the resolution of the model; the default Ki is 0.
kKi == 0
kKd == 4 * One
kOffTrackCte == 5 * One
kMinOffTrackCte == 100
kMinTrackLength == 50 * One

\* ------------------------------------------------------------ input sets

\* CTE values fed to Update: on the centre line, close to it, near the
\* off-track threshold on either side, and beyond it.
Ctes == {-4990, 0, 1000, 4990, 5010}
\* Speeds fed to Update: 0.5 mph, 60 mph and 300 mph.
Speeds == {1, 120, 600}

\* ------------------------------------------------------------- variables

VARIABLES
  has_final_coefficients_,  \* PidController members
  track_length_,
  off_track_cte_,
  distance_,
  time_,
  max_cte_,
  pid_,                     \* the Pid object pid_ points to
  twiddler_,                \* <<>> for a null twiddler_, else <<the Twiddler>>
  exit_status,              \* "none", or how the process ended
  frames,                   \* number of Update calls made
  input,                    \* arguments of the last Update
  calls,                    \* callbacks invoked by the last Update, in order
  scores,                   \* scores the last Update passed to the Twiddler
  episode,                  \* inputs of the frames of the current episode
  history,                  \* every score passed to the Twiddler so far
  steered                   \* CTEs of the on_control frames since the last
                            \* on_reset (or since construction)

vars == <<has_final_coefficients_, track_length_, off_track_cte_, distance_,
          time_, max_cte_, pid_, twiddler_, exit_status, frames, input,
          calls, scores, episode, history, steered>>

\* ------------------------------------------------------------------- Pid

\* Pid(kp, ki, kd): the coefficients and zeroed accumulators.
Pid(kp, ki, kd) == [kp |-> kp, ki |-> ki, kd |-> kd, int |-> 0, prev |-> 0]

\* The Pid object after GetError(cte).
PidAfter(pid, cte) == [pid EXCEPT !.int = pid.int + cte, !.prev = cte]

\* Value returned by GetError(cte):
\*   -(Kp*cte + Ki*integral_of_cte + Kd*(cte - previous_cte)).
GetError(pid, cte) ==
  Fin(-((pid.kp * cte + pid.ki * (pid.int + cte) + pid.kd * (cte - pid.prev))
        \div One))

\* -------------------------------------------------------------- Twiddler

\* The delta of a successful probe left as it is.
GrowNot(dp) == dp
\* The delta of a failed parameter multiplied by the growth factor.
ShrinkByGrowth(dp) == (dp * 11) \div 10

\* delta * 1.1 and delta * 0.9
Grow(dp) == (dp * 11) \div 10
Shrink(dp) == (dp * 9) \div 10
NextIndex(i) == IF i = 3 THEN 1 ELSE i + 1

\* Twiddler({{p, dp}, {p, dp}, {p, dp}}); parameters are numbered from 1 here.
Twiddler(kp, dkp, ki, dki, kd, dkd) ==
  [params |-> <<[p |-> kp, dp |-> dkp], [p |-> ki, dp |-> dki],
                [p |-> kd, dp |-> dkd]>>,
   index |-> 1, try_minus |-> FALSE, started |-> FALSE, best |-> 0]

Perturb(params, i) == [params EXCEPT ![i].p = params[i].p + params[i].dp]

\* The Twiddler after UpdateError(error); its params are the returned value.
UpdateError(tw, error) ==
  LET i == tw.index
      n == NextIndex(i)
  IN  IF ~tw.started
        THEN [tw EXCEPT !.started = TRUE, !.best = error,
                        !.params = Perturb(tw.params, i)]
      ELSE IF error < tw.best
        THEN [tw EXCEPT !.best = error, !.index = n, !.try_minus = FALSE,
                        !.params = Perturb(
                          [tw.params EXCEPT ![i].dp = Grow(tw.params[i].dp)], n)]
      ELSE IF ~tw.try_minus
        THEN [tw EXCEPT !.try_minus = TRUE,
                        !.params = [tw.params EXCEPT
                                      ![i].p = tw.params[i].p - 2 * tw.params[i].dp]]
      ELSE [tw EXCEPT !.index = n, !.try_minus = FALSE,
                      !.params = Perturb(
                        [tw.params EXCEPT
                           ![i].p = tw.params[i].p + tw.params[i].dp,
                           ![i].dp = Shrink(tw.params[i].dp)], n)]

\* ------------------------------------------------------ NormalizeControl

NormalizeControl(value) ==
  IF value.cls = "nan" THEN value         \* NaN > 1. and NaN < -1. are false
  ELSE IF value.cls = "-inf" THEN Fin(-One)
  ELSE IF value.val > One THEN Fin(One)
  ELSE IF value.val < -One THEN Fin(-One)
  ELSE value

\* ---------------------------------------------------------- constructors

\* The members set by a constructor, as a record; Install makes them the
\* state.
\* PidController(kp, ki, kd, dkp, dki, dkd, track_length, off_track_cte)
PidControllerTuning(kp, ki, kd, dkp, dki, dkd, track_length, off_track_cte) ==
  [has_final_coefficients_ |-> FALSE,
   track_length_ |-> track_length,
   off_track_cte_ |-> off_track_cte,
   distance_ |-> 0, time_ |-> 0, max_cte_ |-> 0,
   pid_ |-> Pid(kp, ki, kd),
   twiddler_ |-> <<Twiddler(kp, dkp, ki, dki, kd, dkd)>>]

\* PidController(kp, ki, kd) leaving has_final_coefficients_ false.
PidControllerFinalNotFlagged(kp, ki, kd) ==
  [has_final_coefficients_ |-> FALSE,
   track_length_ |-> 0,
   off_track_cte_ |-> 0,
   distance_ |-> 0, time_ |-> 0, max_cte_ |-> 0,
   pid_ |-> Pid(kp, ki, kd),
   twiddler_ |-> <<>>]

\* PidController(kp, ki, kd): track_length_ and off_track_cte_ are
\* value-initialized, twiddler_ stays null.
PidControllerFinal(kp, ki, kd) ==
  [has_final_coefficients_ |-> TRUE,
   track_length_ |-> 0,
   off_track_cte_ |-> 0,
   distance_ |-> 0, time_ |-> 0, max_cte_ |-> 0,
   pid_ |-> Pid(kp, ki, kd),
   twiddler_ |-> <<>>]

NoInput == [cte |-> 0, speed |-> 0]

Install(c, status) ==
  /\ has_final_coefficients_ = c.has_final_coefficients_
  /\ track_length_ = c.track_length_
  /\ off_track_cte_ = c.off_track_cte_
  /\ distance_ = c.distance_
  /\ time_ = c.time_
  /\ max_cte_ = c.max_cte_
  /\ pid_ = c.pid_
  /\ twiddler_ = c.twiddler_
  /\ exit_status = status
  /\ frames = 0
  /\ input = NoInput
  /\ calls = <<>>
  /\ scores = <<>>
  /\ episode = <<>>
  /\ history = <<>>
  /\ steered = <<>>

\* ---------------------------------------------------------------- Update

\* The distance assigned instead of accumulated.
DistanceAssigned(distance, speed) == kSpeedToDistanceCoeff * speed

\* distance_ += kSpeedToDistanceCoeff * speed
DistanceAfter(distance, speed) == distance + kSpeedToDistanceCoeff * speed

\* distance_ > track_length_ * kMaxCteSkipPart, the track length being in
\* thousandths of a metre: distance / Meter > track_length / One / 40,
\* both sides scaled down by 1250 to stay within 32 bits.
PastSkippedPart(distance, track_length) ==
  distance * ((kMaxCteSkipInverse * One) \div 1250) > track_length * (Meter \div 1250)

\* cte > max_cte_ && distance_ > track_length_ * kMaxCteSkipPart
NewMaxCte(cte, max_cte, distance, track_length) ==
  cte > max_cte /\ PastSkippedPart(distance, track_length)

\* OffTrack with the speed test missing.
OffTrackNoSpeed(distance, cte, speed, off_track_cte) ==
  /\ distance > kMinMeasurementDistance
  /\ Abs(cte) > off_track_cte

\* distance_ > kMinMeasurementDistance
\*   && (std::fabs(cte) > off_track_cte_ || speed < 1.0)
OffTrack(distance, cte, speed, off_track_cte) ==
  /\ distance > kMinMeasurementDistance
  /\ (Abs(cte) > off_track_cte \/ speed < MphUnit)

\* The penalty divided by the distance in whole metres.
OffTrackErrorWholeMetres(distance) ==
  ((kOffTrackPenalty * One) \div ((((distance * 4) \div 625) \div One) * One)) * One

\* kOffTrackPenalty / distance_, in thousandths; the distance is taken in
\* whole millimetres and the quotient in whole units.
OffTrackError(distance) ==
  ((kOffTrackPenalty * One) \div ((distance * 4) \div 625)) * One

\* distance_ > track_length_ : distance / Meter > track_length / One, both
\* sides scaled down by 250.
TrackCompleted(distance, track_length) ==
  distance * (One \div 250) > track_length * (Meter \div 250)

\* Converged with the threshold not halved.
ConvergedNotHalved(max_cte, off_track_cte) == max_cte < off_track_cte

\* max_cte_ < off_track_cte_ / 2.
Converged(max_cte, off_track_cte) == 2 * max_cte < off_track_cte

\* Bookkeeping done in every frame, whatever the mode.
BookkeepingAlways(has_final) == TRUE

\* The guard of the bookkeeping block: !has_final_coefficients_
Bookkeeping(has_final) == ~has_final

\* The flag assigned from the convergence test in every frame.
HasFinalRecomputed(has_final, converged) == converged

\* has_final_coefficients_ after the frame: set on convergence, kept
\* otherwise.
HasFinalAfter(has_final, converged) == has_final \/ converged

\* 1.0 - 4.0 * std::fabs(cte) / off_track_cte_
ThrottleValue(cte, off_track_cte) ==
  IF off_track_cte = 0
    THEN (IF cte = 0 THEN NaN ELSE NegInf)
    ELSE Fin(One - ((4 * Abs(cte) * One) \div off_track_cte))

\* Throttle computed from the CTE of the previous frame.
ThrottleOfPreviousCte(cte, speed, off_track_cte) ==
  IF speed > 60 * MphUnit
    THEN NormalizeControl(ThrottleValue(pid_.prev, off_track_cte))
    ELSE Fin(One)

\* throttle = 1.0; if (speed > 60) throttle = NormalizeControl(...)
Throttle(cte, speed, off_track_cte) ==
  IF speed > 60 * MphUnit
    THEN NormalizeControl(ThrottleValue(cte, off_track_cte))
    ELSE Fin(One)

\* The steering passed on without NormalizeControl.
SteeringUnclamped(pid, cte) == GetError(pid, cte)

\* steering = NormalizeControl(pid_->GetError(cte))
Steering(pid, cte) == NormalizeControl(GetError(pid, cte))

OnControl(steering, throttle) ==
  [cb |-> "on_control", steering |-> steering, throttle |-> throttle]
OnReset == [cb |-> "on_reset", steering |-> Fin(0), throttle |-> Fin(0)]

\* Callbacks with the return after on_reset() missing.
CallbacksNoReturn(reset, control) ==
  IF reset THEN <<OnReset, control>> ELSE <<control>>

\* The callbacks a frame invokes: on_reset() and return on either episode
\* end, on_control(steering, throttle) at the end of the function otherwise.
Callbacks(reset, control) == IF reset THEN <<OnReset>> ELSE <<control>>

\* UpdateTwiddlerAndReset without max_cte_ = 0.
UpdateTwiddlerAndResetKeepsMax(error) ==
  LET tw == UpdateError(twiddler_[1], error)
  IN  [crash |-> FALSE,
       pid_ |-> Pid(tw.params[1].p, tw.params[2].p, tw.params[3].p),
       twiddler_ |-> <<tw>>,
       distance_ |-> 0, time_ |-> 0, max_cte_ |-> max_cte_]

\* UpdateTwiddlerAndReset taking kd from parameters[1].
UpdateTwiddlerAndResetWrongKd(error) ==
  LET tw == UpdateError(twiddler_[1], error)
  IN  [crash |-> FALSE,
       pid_ |-> Pid(tw.params[1].p, tw.params[2].p, tw.params[2].p),
       twiddler_ |-> <<tw>>,
       distance_ |-> 0, time_ |-> 0, max_cte_ |-> 0]

\* UpdateTwiddlerAndReset(error): the members it leaves.  Called with a
\* null twiddler_ it dereferences a null pointer.
UpdateTwiddlerAndReset(error) ==
  IF twiddler_ = <<>>
    THEN [crash |-> TRUE, pid_ |-> pid_, twiddler_ |-> twiddler_,
          distance_ |-> distance_, time_ |-> time_, max_cte_ |-> max_cte_]
    ELSE LET tw == UpdateError(twiddler_[1], error)
         IN  [crash |-> FALSE,
              pid_ |-> Pid(tw.params[1].p, tw.params[2].p, tw.params[3].p),
              twiddler_ |-> <<tw>>,
              distance_ |-> 0, time_ |-> 0, max_cte_ |-> 0]

\* The body of Update(cte, speed): the members and what the frame emits.
Frame(cte, speed) ==
  /\ exit_status = "none"
  /\ LET book == Bookkeeping(has_final_coefficients_)
         d == IF book THEN DistanceAfter(distance_, speed) ELSE distance_
         t == IF book THEN time_ + 1 ELSE time_
         m == IF book /\ NewMaxCte(cte, max_cte_, d, track_length_)
                THEN cte ELSE max_cte_
         offTrack == book /\ OffTrack(d, cte, speed, off_track_cte_)
         completed == book /\ ~offTrack /\ TrackCompleted(d, track_length_)
         converged == completed /\ Converged(m, off_track_cte_)
         retune == completed /\ ~converged
         reset == offTrack \/ retune
         error == IF offTrack THEN OffTrackError(d) ELSE m
         r == UpdateTwiddlerAndReset(error)
     IN  /\ input' = [cte |-> cte, speed |-> speed]
         /\ UNCHANGED <<track_length_, off_track_cte_>>
         /\ IF reset /\ r.crash
              THEN /\ exit_status' = "SIGSEGV"
                   /\ calls' = <<>>
                   /\ scores' = <<>>
                   /\ distance_' = d
                   /\ time_' = t
                   /\ max_cte_' = m
                   /\ UNCHANGED <<has_final_coefficients_, pid_, twiddler_,
                                  episode>>
              ELSE /\ exit_status' = exit_status
                   /\ has_final_coefficients_' =
                        HasFinalAfter(has_final_coefficients_, converged)
                   /\ distance_' = IF reset THEN r.distance_ ELSE d
                   /\ time_' = IF reset THEN r.time_ ELSE t
                   /\ max_cte_' = IF reset THEN r.max_cte_ ELSE m
                   /\ twiddler_' = IF reset THEN r.twiddler_ ELSE twiddler_
                   /\ scores' = IF reset THEN <<error>> ELSE <<>>
                   /\ pid_' = IF reset THEN r.pid_ ELSE PidAfter(pid_, cte)
                   /\ episode' = IF ~book THEN episode
                                 ELSE IF reset THEN <<>>
                                 ELSE Append(episode, [cte |-> cte, speed |-> speed])
                   /\ calls' = Callbacks(reset,
                                 OnControl(Steering(pid_, cte),
                                           Throttle(cte, speed, off_track_cte_)))

\* One call of Update, with the records kept of it.
Update(cte, speed) ==
  /\ frames < MaxFrames
  /\ Frame(cte, speed)
  /\ frames' = frames + 1
  /\ history' = history \o scores'
  /\ steered' = IF calls' = <<>> THEN steered
                ELSE IF calls'[1].cb = "on_reset" THEN <<>>
                ELSE Append(steered, cte)

\* ----------------------------------------------------- construction sets

\* Values of the constructors' parameters: the coefficients, deltas, track
\* length and off-track CTE the tests use, each given to the parameter of
\* that name.
Coefficients == {[kp |-> 100, ki |-> 1, kd |-> 4000]}
Deltas == {[dkp |-> 10, dki |-> 10, dkd |-> 100]}
TrackLengths == {10 * One}
OffTrackCtes == {5 * One}

InitTuning ==
  \E k \in Coefficients, dk \in Deltas, tl \in TrackLengths, otc \in OffTrackCtes :
    Install(PidControllerTuning(k.kp, k.ki, k.kd, dk.dkp, dk.dki, dk.dkd, tl, otc),
            "none")

InitFinal ==
  \E k \in Coefficients : Install(PidControllerFinal(k.kp, k.ki, k.kd), "none")

\* A controller built by either constructor.
Init == InitTuning \/ InitFinal

Next == \E cte \in Ctes, speed \in Speeds : Update(cte, speed)

Spec == Init /\ [][Next]_vars

\* ------------------------------------------------------------- main.cpp

\* Command lines: argc and the values std::stod reads from argv[1..8].
OffTrackArgs == {-1000, 50, 5 * One}
TrackLengthArgs == {-1000, 10 * One, 50 * One}
CommandLines ==
  [argc : {1, 2, 5, 9}, k : Coefficients, off_track_cte : OffTrackArgs,
   dk : Deltas, track_length : TrackLengthArgs]

\* ProcessBaseParameters: TRUE when it returns, FALSE when it exits.
ProcessBaseParameters(off_track_cte) ==
  ~(off_track_cte < 0) /\ ~(off_track_cte < kMinOffTrackCte)

\* The track length check of case 9: TRUE when it passes.
TrackLengthAccepted(track_length) ==
  ~(track_length < 0) /\ ~(track_length < kMinTrackLength)

NoController == PidControllerFinal(0, 0, 0)

\* CreatePidController: the controller it returns, or std::exit(EXIT_FAILURE).
\* The arguments of each constructor call are in the order main.cpp writes
\* them; the constructor of three coefficients receives the coefficients.
CreatePidController(a) ==
  IF a.argc \notin {1, 5, 9}
    THEN Install(NoController, "EXIT_FAILURE")
  ELSE IF a.argc = 1
    THEN Install(PidControllerFinal(kKp, kKi, kKd), "none")
  ELSE IF ~ProcessBaseParameters(a.off_track_cte)
    THEN Install(NoController, "EXIT_FAILURE")
  ELSE IF a.argc = 5
    THEN Install(PidControllerFinal(a.k.kp, a.k.ki, a.k.kd), "none")
  ELSE IF ~TrackLengthAccepted(a.track_length)
    THEN Install(NoController, "EXIT_FAILURE")
  ELSE Install(PidControllerTuning(a.k.kp, a.k.ki, a.k.kd, a.off_track_cte,
                                   a.dk.dkp, a.dk.dki, a.dk.dkd, a.track_length),
               "none")

InitMain == \E a \in CommandLines : CreatePidController(a)

\* The program: a controller made by CreatePidController, then one Update
\* per telemetry message.
SpecMain == InitMain /\ [][Next]_vars

\* Update takes any double as speed: a controller fed negative speeds too.
ReverseSpeeds == {-120}
NextAnySpeed ==
  \E cte \in Ctes, speed \in Speeds \cup ReverseSpeeds : Update(cte, speed)
SpecAnySpeed == Init /\ [][NextAnySpeed]_vars

\* The episodes of a tuning controller on a short track, every frame at
\* 1 mph or more.  time_ grows with every frame of an episode; frames are
\* delivered while it is below MaxEpisodeFrames.
MaxEpisodeFrames == 4
LiveCtes == {0, 5010}
LiveSpeeds == {MphUnit, 600}
LiveDeltas == {[dkp |-> 1, dki |-> 1, dkd |-> 1]}
LiveTrackLengths == {One \div 20}

InitLive ==
  \E k \in Coefficients, dk \in LiveDeltas, tl \in LiveTrackLengths,
     otc \in OffTrackCtes :
    Install(PidControllerTuning(k.kp, k.ki, k.kd, dk.dkp, dk.dki, dk.dkd, tl, otc),
            "none")

NextLive ==
  /\ ~has_final_coefficients_
  /\ time_ < MaxEpisodeFrames
  /\ \E cte \in LiveCtes, speed \in LiveSpeeds : Frame(cte, speed)
  /\ UNCHANGED <<frames, history, steered>>

\* The simulator keeps sending telemetry: a frame that can be delivered is
\* delivered.
SpecLive == InitLive /\ [][NextLive]_vars /\ WF_vars(NextLive)

\* ================================================================ claims

IsControl(cs) == Len(cs) = 1 /\ cs[1].cb = "on_control"
IsReset(cs) == Len(cs) = 1 /\ cs[1].cb = "on_reset"
InUnit(v) == v.cls = "fin" /\ -One <= v.val /\ v.val <= One
UpdateStep == frames' = frames + 1

\* Quantities of the frame being taken, from the state before it and the
\* input recorded after it.
FrameDistance == distance_ + kSpeedToDistanceCoeff * input'.speed
FrameOffTrack ==
  /\ FrameDistance > 5 * Meter
  /\ (Abs(input'.cte) > off_track_cte_ \/ input'.speed < MphUnit)
FrameCompleted == FrameDistance * 4 > track_length_ * 625
FrameMaxCte ==
  IF input'.cte > max_cte_ /\ FrameDistance * 32 > track_length_ * 125
    THEN input'.cte ELSE max_cte_
SameCoefficients ==
  /\ pid_'.kp = pid_.kp
  /\ pid_'.ki = pid_.ki
  /\ pid_'.kd = pid_.kd

\* C1: every Update invokes exactly one callback, exactly once: on_control
\* or on_reset, never both and never neither.
C1_ExactlyOneCallback ==
  frames > 0 => (Len(calls) = 1 /\ calls[1].cb \in {"on_control", "on_reset"})

\* A frame of a tuning controller that ended in on_reset.
C1_Witness == frames > 0 /\ IsReset(calls) /\ ~has_final_coefficients_

C3_ConstantCteCompletionResets ==
  [][(/\ UpdateStep
      /\ ~has_final_coefficients_
      /\ 2 * Abs(input'.cte) > off_track_cte_
      /\ Abs(input'.cte) < off_track_cte_
      /\ input'.speed >= MphUnit
      /\ \A i \in 1..Len(episode) :
           episode[i].cte = input'.cte /\ episode[i].speed >= MphUnit
      /\ FrameCompleted)
     => IsReset(calls')]_vars

C5_FixedIsAbsorbing ==
  [][has_final_coefficients_ => has_final_coefficients_']_vars

\* A converged controller that took a frame beyond the off-track threshold
\* and stayed Fixed.
C5_Witness ==
  /\ has_final_coefficients_
  /\ twiddler_ # <<>>
  /\ Abs(input.cte) > off_track_cte_
  /\ IsControl(calls)

\* C6: a frame in Fixed mode invokes on_control alone, passes no score to
\* the Twiddler, keeps the coefficients and leaves distance_, time_ and
\* max_cte_ unchanged, whatever cte and speed are.
C6_FixedFrame ==
  [][(UpdateStep /\ has_final_coefficients_) =>
       /\ IsControl(calls')
       /\ scores' = <<>>
       /\ twiddler_' = twiddler_
       /\ SameCoefficients
       /\ distance_' = distance_
       /\ time_' = time_
       /\ max_cte_' = max_cte_]_vars

\* A converged controller that took a frame at a speed below 1.0.
C6_Witness ==
  /\ has_final_coefficients_
  /\ twiddler_ # <<>>
  /\ input.speed < MphUnit
  /\ frames > 0
  /\ IsControl(calls)
  /\ distance_ > 5 * Meter

\* C7: every control command carries a steering in [-1, 1] and a throttle
\* in [-1, 1].
C7_ControlInRange ==
  (frames > 0 /\ IsControl(calls)) =>
    (InUnit(calls[1].steering) /\ InUnit(calls[1].throttle))

\* C8: the throttle of a control command is 1.0 when speed <= 60 and, when
\* speed > 60, 1.0 - 4*|cte|/offTrackCte clamped to [-1, 1], hence -1
\* whenever |cte| >= offTrackCte/2.
C8_ThrottleLaw ==
  (frames > 0 /\ IsControl(calls)) =>
    LET th == calls[1].throttle
        raw == One - ((4 * Abs(input.cte) * One) \div off_track_cte_)
    IN  IF input.speed <= 60 * MphUnit
          THEN th = Fin(One)
          ELSE /\ InUnit(th)
               /\ 2 * Abs(input.cte) >= off_track_cte_ => th = Fin(-One)
               /\ off_track_cte_ > 0 =>
                    th = Fin(IF raw > One THEN One
                             ELSE IF raw < -One THEN -One ELSE raw)

\* C9, as claimed: in Fixed mode a frame with the input of the frame before
\* it invokes on_control with the same steering and the same throttle.
C9_SameInputSameOutput ==
  [][(/\ UpdateStep
      /\ frames > 0
      /\ has_final_coefficients_
      /\ IsControl(calls)
      /\ input' = input)
     => calls' = calls]_vars

\* C9, amended: in Fixed mode a frame with the input of the frame before it
\* invokes on_control with the same throttle (the steering is that of the
\* PID law, whose running sum and previous CTE the frame before changed).
C9_SameInputSameThrottle ==
  [][(/\ UpdateStep
      /\ frames > 0
      /\ has_final_coefficients_
      /\ IsControl(calls)
      /\ input' = input)
     => /\ IsControl(calls')
        /\ calls'[1].throttle = calls[1].throttle]_vars

\* Two frames with the same input in Fixed mode, at a speed above 60, whose
\* steering differs.
C9_Witness ==
  /\ has_final_coefficients_
  /\ frames >= 2
  /\ IsControl(calls)
  /\ input.speed > 60 * MphUnit
  /\ pid_.int = 2 * input.cte
  /\ pid_.prev = input.cte
  /\ input.cte # 0

\* C10: no Update is executed by a controller whose off_track_cte_ is below
\* 0.1, nor by a Tuning controller whose track_length_ is below 50.0.
C10_ValidatedBeforeFirstFrame ==
  [][UpdateStep =>
       /\ off_track_cte_ >= kMinOffTrackCte
       /\ ~has_final_coefficients_ => track_length_ >= kMinTrackLength]_vars

\* The Twiddler of a tuning controller, and a submission made by the step.
Tw == twiddler_[1]
Submission == UpdateStep /\ Len(history') = Len(history) + 1
Decreasing(h) == \A i \in 1..(Len(h) - 1) : h[i + 1] < h[i]

\* C11: when the second score submitted is no improvement on the first,
\* parameter 0 is left one delta below its original value, with its delta
\* unchanged and still the one probed; when the third is no improvement
\* either, parameter 0 is back at its original value, its delta is
\* multiplied by 0.9, and parameter 1 is raised by its own delta.
C11_Backtrack ==
  [][Submission =>
       \A k \in Coefficients, dk \in Deltas :
           /\ (Len(history) = 1 /\ ~(history'[2] < history'[1])) =>
                /\ Tw'.params[1].p = k.kp - dk.dkp
                /\ Tw'.params[1].dp = dk.dkp
                /\ Tw'.index = 1
           /\ (/\ Len(history) = 2
               /\ ~(history'[2] < history'[1])
               /\ ~(history'[3] < history'[1])) =>
                /\ Tw'.params[1].p = k.kp
                /\ 10 * Tw'.params[1].dp = 9 * dk.dkp
                /\ Tw'.params[2].p = k.ki + dk.dki
                /\ Tw'.params[2].dp = dk.dki
                /\ Tw'.index = 2]_vars

\* Three submissions, the second and the third no better than the first.
C11_Witness ==
  /\ Len(history) = 3
  /\ ~(history[2] < history[1])
  /\ ~(history[3] < history[1])
  /\ twiddler_ # <<>>
  /\ Tw.index = 2

\* C12, as claimed: while the submitted scores are strictly decreasing,
\* every submission increases the delta of the parameter being probed.
C12_EverySubmissionGrowsDelta ==
  [][(Submission /\ Decreasing(history')) =>
       Tw'.params[Tw.index].dp > Tw.params[Tw.index].dp]_vars

\* C12, amended: while the submitted scores are strictly decreasing, every
\* submission after the first increases the delta of the parameter that was
\* being probed when the score was submitted.
C12_LaterSubmissionsGrowDelta ==
  [][(Submission /\ Decreasing(history') /\ Len(history) >= 1) =>
       Tw'.params[Tw.index].dp > Tw.params[Tw.index].dp]_vars

\* Two strictly decreasing scores submitted.
C12_Witness ==
  /\ Len(history) = 2
  /\ history[2] < history[1]
  /\ twiddler_ # <<>>
  /\ Tw.params[1].dp > 10

\* The step turns a Tuning controller into a Fixed one.
Handoff == UpdateStep /\ ~has_final_coefficients_ /\ has_final_coefficients_'
CountersZero == distance_ = 0 /\ time_ = 0 /\ max_cte_ = 0

\* C13, as claimed: after a frame that ends an episode, by on_reset or by
\* the handoff to Fixed mode, distance_, time_ and max_cte_ are zero.
C13_ZeroAtEveryEpisodeEnd ==
  [][((UpdateStep /\ IsReset(calls')) \/ Handoff) => CountersZero']_vars

\* C13, amended: after a frame that ends an episode by on_reset the three
\* counters are zero; the handoff to Fixed mode leaves them at the values
\* the frame computed.
C13_ZeroAtReset ==
  [][/\ (UpdateStep /\ IsReset(calls')) => CountersZero'
     /\ Handoff => /\ distance_' = FrameDistance
                   /\ time_' = time_ + 1
                   /\ max_cte_' = FrameMaxCte]_vars

\* An episode ended by completion without convergence, its counters zeroed.
C13_Witness ==
  /\ IsReset(calls)
  /\ scores = <<4990>>
  /\ CountersZero
  /\ frames >= 2

ForwardEpisode ==
  /\ input'.speed >= 0
  /\ \A i \in 1..Len(episode) : episode[i].speed >= 0

\* C14, as claimed: in Tuning mode, whatever the inputs, a frame that does
\* not end the episode never lowers distance_ or time_, and they become
\* zero only in a frame that ends the episode.
C14_Monotonic ==
  [][(UpdateStep /\ ~has_final_coefficients_) =>
       /\ ~IsReset(calls') => (distance_' >= distance_ /\ time_' >= time_)
       /\ ((distance_ # 0 /\ distance_' = 0) \/ time_' = 0) => IsReset(calls')]_vars

\* C14, amended: the same, for episodes whose speeds are all at least 0.
C14_MonotonicForward ==
  [][(UpdateStep /\ ~has_final_coefficients_ /\ ForwardEpisode) =>
       /\ ~IsReset(calls') => (distance_' >= distance_ /\ time_' >= time_)
       /\ ((distance_ # 0 /\ distance_' = 0) \/ time_' = 0) => IsReset(calls')]_vars

\* Three frames into an episode of a tuning controller, at speeds >= 0.
C14_Witness ==
  /\ ~has_final_coefficients_
  /\ time_ = 3
  /\ distance_ > 0
  /\ \A i \in 1..Len(episode) : episode[i].speed >= 0

\* C15: a frame passes at most one score to the Twiddler, and one exactly
\* when it invokes on_reset: kOffTrackPenalty / distance_ (the distance
\* including this frame, above 5 m) when the off-track check triggered,
\* max_cte_ when the track was completed without convergence; a frame that
\* is off track and past the track length submits the off-track score only.
C15_OneScorePerReset ==
  [][UpdateStep =>
       /\ Len(scores') <= 1
       /\ Len(scores') = 1 <=> IsReset(calls')
       /\ (~has_final_coefficients_ /\ FrameOffTrack) =>
            /\ FrameDistance > 5 * Meter
            /\ scores' = <<((1000000 * One) \div ((FrameDistance * 4) \div 625)) * One>>
       /\ (~has_final_coefficients_ /\ ~FrameOffTrack /\ IsReset(calls')) =>
            (FrameCompleted /\ scores' = <<FrameMaxCte>>)]_vars

\* A frame both off track and past the track length (10 m): the score is
\* the off-track one, below 1e6 / 10.
C15_Witness ==
  /\ IsReset(calls)
  /\ Len(scores) = 1
  /\ Abs(input.cte) > off_track_cte_
  /\ scores[1] < 100000 * One
  /\ scores[1] > 10 * One

\* Distance accumulated by the first n frames of the current episode.
RECURSIVE EpisodeDistance(_)
EpisodeDistance(n) ==
  IF n = 0 THEN 0
  ELSE EpisodeDistance(n - 1) + kSpeedToDistanceCoeff * episode[n].speed

\* Largest |cte| among the first n frames of the episode that were past
\* track_length_ * 0.025; 0 when there is none.
RECURSIVE EpisodeMaxAbsCte(_)
EpisodeMaxAbsCte(n) ==
  IF n = 0 THEN 0
  ELSE LET rest == EpisodeMaxAbsCte(n - 1)
           here == Abs(episode[n].cte)
       IN  IF EpisodeDistance(n) * 32 > track_length_ * 125 /\ here > rest
             THEN here ELSE rest

\* C16: in Tuning mode max_cte_ is the largest |cte| of the frames of the
\* current episode whose distance exceeded track_length_ * 0.025, and 0
\* when there is no such frame.
C16_MaxCteIsMaxMagnitude ==
  (exit_status = "none" /\ ~has_final_coefficients_) =>
    max_cte_ = EpisodeMaxAbsCte(Len(episode))

CoefficientsOfTwiddler ==
  /\ pid_.kp = Tw.params[1].p
  /\ pid_.ki = Tw.params[2].p
  /\ pid_.kd = Tw.params[3].p

\* C17: between Update calls of a tuning controller the coefficients of the
\* Pid are the parameter values of the Twiddler; an Update that submits a
\* score replaces the Pid by one built from the three returned values, and
\* no other Update changes a coefficient.
C17_CoefficientsFollowTwiddler ==
  /\ [](twiddler_ # <<>> => CoefficientsOfTwiddler)
  /\ [][(UpdateStep /\ twiddler_ # <<>>) =>
          /\ Len(scores') = 1 =>
               pid_' = Pid(Tw'.params[1].p, Tw'.params[2].p, Tw'.params[3].p)
          /\ Len(scores') = 0 => (SameCoefficients /\ twiddler_' = twiddler_)]_vars

\* A tuning controller after two submissions, the minus probe in its Pid.
C17_Witness ==
  /\ twiddler_ # <<>>
  /\ Tw.try_minus
  /\ Len(history) = 2
  /\ pid_.kp = 90
  /\ IsControl(calls)

RECURSIVE SumOf(_)
SumOf(q) == IF q = <<>> THEN 0 ELSE Head(q) + SumOf(Tail(q))
PreviousOf(q) == IF Len(q) < 2 THEN 0 ELSE q[Len(q) - 1]
LastOf(q) == IF q = <<>> THEN 0 ELSE q[Len(q)]

\* C18: the steering of a control command is
\* clamp(-(Kp*cte + Ki*S + Kd*(cte - P)), -1, 1), S the sum of the CTEs of
\* this and the earlier on_control frames since the last reset (or since
\* construction), P the CTE of the previous such frame or 0; a reset leaves
\* a Pid whose sum and previous CTE are zero and which never saw the CTE of
\* the reset frame, and the handoff to Fixed mode restarts neither.
C18_SteeringLaw ==
  frames > 0 =>
    /\ pid_.int = SumOf(steered)
    /\ pid_.prev = LastOf(steered)
    /\ IsReset(calls) => steered = <<>>
    /\ IsControl(calls) =>
         LET raw == -((pid_.kp * input.cte + pid_.ki * SumOf(steered)
                       + pid_.kd * (input.cte - PreviousOf(steered))) \div One)
         IN  /\ LastOf(steered) = input.cte
             /\ calls[1].steering =
                  Fin(IF raw > One THEN One ELSE IF raw < -One THEN -One ELSE raw)

\* A converged controller whose Pid still carries the sum of the CTEs of
\* the frames before the handoff.
C18_Witness ==
  /\ has_final_coefficients_
  /\ twiddler_ # <<>>
  /\ Len(steered) >= 3
  /\ time_ = 2
  /\ pid_.int # 0
  /\ IsControl(calls)

EpisodeEnded == IsReset(calls) \/ has_final_coefficients_

\* C19: with every frame at 1 mph or more, a tuning controller in an
\* episode eventually ends it, by a reset or by the switch to Fixed mode.
C19_EpisodeEnds ==
  [](~has_final_coefficients_ => <>EpisodeEnded)

\* An episode driven at 1 mph throughout that ended by a reset after the
\* track length was covered.
C19_Witness ==
  /\ ~has_final_coefficients_
  /\ IsReset(calls)
  /\ input.speed = MphUnit
  /\ scores = <<5010>>
  /\ Tw.try_minus

\* C20: UpdateTwiddlerAndReset is reached only by a controller that has a
\* Twiddler and is in Tuning mode: the null twiddler_ of a controller built
\* with final coefficients is never dereferenced, and a frame of a
\* controller in Fixed mode, however built, submits no score and leaves the
\* Twiddler as it was.
C20_TwiddlerOnlyWhileTuning ==
  /\ [](exit_status # "SIGSEGV")
  /\ [][UpdateStep =>
          /\ Len(scores') > 0 =>
               (twiddler_ # <<>> /\ ~has_final_coefficients_)
          /\ (has_final_coefficients_ \/ twiddler_ = <<>>) =>
               (scores' = <<>> /\ twiddler_' = twiddler_)]_vars

\* A controller built with final coefficients after frames whose inputs
\* satisfy both episode-end tests.
C20_Witness ==
  /\ twiddler_ = <<>>
  /\ has_final_coefficients_
  /\ exit_status = "none"
  /\ frames = MaxFrames
  /\ Abs(input.cte) > off_track_cte_
  /\ input.speed = 600
  /\ IsControl(calls)

====
